---------------------------- MODULE Spec2Model ----------------------------
(***************************************************************************)
(* A model of sudoku-rs (src/src/lib.rs): the candidate-set Cell, the 9x9  *)
(* Sudoku grid with its text form, the two propagation rules and their     *)
(* fixpoint loop, the stack-based SolutionsIter and generate_solvable.     *)
(*                                                                         *)
(* A Cell is modelled by the set of digits whose bit is set in the u16     *)
(* mask `digits` (bit d set <=> d \in cell).  An Option is modelled by a   *)
(* sequence: None is <<>> and Some(x) is <<x>>.                            *)
(***************************************************************************)
EXTENDS Integers, Sequences, FiniteSets, TLC

\* The side of the grid and the side of a box (the literals 9 and 3 of lib.rs).
Side == 9
BoxSide == 3
\* The number of cells (the literal 81 of from_line and generate_solvable).
NCells == 81

Idx == 0 .. (Side - 1)

None == << >>
Some(x) == << x >>
IsSome(o) == Len(o) = 1
Unwrap(o) == o[1]

\* `let v = e; body`: Body applied to the value of e.  The value is bound by
\* a set constructor, so that it is computed once however often Body uses it.
Let(e, Body(_)) == CHOOSE y \in {Body(v) : v \in {e}} : TRUE

\* A `for i in lo..=hi` loop over a state: st = Op(st, i) for each i in order.
\* The range is split in halves, the first half being computed before the
\* second is entered, so that the evaluation depth stays logarithmic in the
\* length of the range.
RECURSIVE FoldRange(_, _, _, _)
FoldRange(Op(_, _), st, lo, hi) ==
    IF lo > hi THEN st
    ELSE IF lo = hi THEN Let(<< st, lo >>, LAMBDA a : Op(a[1], a[2]))
    ELSE Let(<< lo, (lo + hi) \div 2, hi >>, LAMBDA b :
         Let(FoldRange(Op, st, b[1], b[2]), LAMBDA left :
             FoldRange(Op, left, b[2] + 1, b[3])))

---------------------------------------------------------------------------
(* Cell *)

\* A faulty from_digit: the digit 9 is rejected
from_digit_lt9(d) == IF d = 0 \/ d > 8 THEN None ELSE Some({d})

\* Cell::from_digit
from_digit(d) == IF d = 0 \/ d > 9 THEN None ELSE Some({d})

\* Cell::all_digits: the mask 0b11_1111_1110, bits 1..9
all_digits == 1 .. 9

\* Cell::len: count_ones
len(cell) == Cardinality(cell)

\* Cell::is_empty
is_empty(cell) == len(cell) = 0

\* The value 15 - leading_zeros wraps to on the empty mask in a build without
\* overflow checks (leading_zeros = 16, so 15 - 16 in u16).
U16Wrap == 65535

MaxOf(S) == CHOOSE x \in S : \A y \in S : y <= x

\* A faulty first_digit: the index of the lowest set bit (trailing_zeros)
first_digit_lowest(cell) == IF cell = {} THEN U16Wrap ELSE CHOOSE x \in cell : \A y \in cell : x <= y

\* Cell::first_digit: 15 - leading_zeros, the index of the highest set bit
first_digit(cell) == IF cell = {} THEN U16Wrap ELSE MaxOf(cell)

\* Cell::has_digit
has_digit(cell, d) == d \in cell

\* Cell::remove_digit
remove_digit(cell, d) == cell \ {d}

---------------------------------------------------------------------------
(* Sudoku: cells[r][c], r and c in 0..8 *)

GridOf(f(_, _)) == [r \in Idx |-> [c \in Idx |-> f(r, c)]]

\* Sudoku::quad_of
quad_of(r, c) == << (r \div BoxSide) * BoxSide, (c \div BoxSide) * BoxSide >>

\* Sudoku::row, Sudoku::col, Sudoku::quad: the nine cells as a sequence
row(s, r) == [k \in 1 .. Side |-> s[r][k - 1]]
col(s, c) == [k \in 1 .. Side |-> s[k - 1][c]]
quad(s, r, c) ==
    LET q == quad_of(r, c)
    IN  [k \in 1 .. Side |-> s[q[1] + ((k - 1) \div BoxSide)][q[2] + ((k - 1) % BoxSide)]]

\* The closure has_no_duplicates of is_solved: remove each cell's first digit
\* from the full set and test that nothing is left.
RECURSIVE RemoveFirstDigits(_, _, _)
RemoveFirstDigits(cells, k, digits_set) ==
    IF k > Len(cells) THEN digits_set
    ELSE RemoveFirstDigits(cells, k + 1, remove_digit(digits_set, first_digit(cells[k])))

has_no_duplicates(cells) == is_empty(RemoveFirstDigits(cells, 1, all_digits))

\* Sudoku::is_solved
is_solved(s) ==
    LET is_filled == \A r \in Idx : \A c \in Idx : len(s[r][c]) = 1
    IN  IF ~is_filled THEN FALSE
        ELSE IF ~(\A r \in Idx : has_no_duplicates(row(s, r))) THEN FALSE
        ELSE IF ~(\A r \in Idx : has_no_duplicates(col(s, r))) THEN FALSE
        ELSE IF ~(\A r \in Idx :
                    has_no_duplicates(quad(s, (r \div BoxSide) * BoxSide, (r % BoxSide) * BoxSide)))
             THEN FALSE
        ELSE TRUE

---------------------------------------------------------------------------
(* Text form: a line is a sequence of one-character strings *)

DigitChars == << "0", "1", "2", "3", "4", "5", "6", "7", "8", "9" >>

\* char::to_digit(10): Some(n) for a decimal digit, None otherwise
to_digit(ch) ==
    IF \E n \in 1 .. 10 : DigitChars[n] = ch
    THEN Some((CHOOSE n \in 1 .. 10 : DigitChars[n] = ch) - 1)
    ELSE None

\* u16::to_string().chars().next().unwrap(): the first character of the
\* decimal form of n
FirstCharOf(n) ==
    IF n < 10 THEN DigitChars[n + 1]
    ELSE IF n < 100 THEN DigitChars[(n \div 10) + 1]
    ELSE IF n < 1000 THEN DigitChars[(n \div 100) + 1]
    ELSE IF n < 10000 THEN DigitChars[(n \div 1000) + 1]
    ELSE DigitChars[(n \div 10000) + 1]

\* One character of from_line: '.' is the full cell, a digit goes through
\* to_digit and from_digit, both with `?`.
CellOfChar(ch) ==
    IF ch = "." THEN Some(all_digits)
    ELSE IF ~IsSome(to_digit(ch)) THEN None
    ELSE from_digit(Unwrap(to_digit(ch)))

\* Sudoku::from_line
from_line(line) ==
    IF Len(line) # NCells THEN None
    ELSE IF \E i \in 1 .. NCells : ~IsSome(CellOfChar(line[i])) THEN None
    ELSE Some(GridOf(LAMBDA r, c : Unwrap(CellOfChar(line[(r * Side + c) + 1]))))

\* Sudoku::to_line
to_line(s) ==
    [i \in 1 .. NCells |->
        LET c == s[(i - 1) \div Side][(i - 1) % Side]
        IN  IF len(c) = 1 THEN FirstCharOf(first_digit(c)) ELSE "."]

---------------------------------------------------------------------------
(* Propagator *)

\* The closure remove_d_at of without_conflicts, applied to the state
\* st = [new, changed, failed] of the enclosing call.
remove_d_at(self, st, r, c, d, nr, nc) ==
    IF st.failed THEN st
    ELSE IF nr # r \/ nc # c
    THEN LET cell == remove_digit(st.new[nr][nc], d)
         IN  [new     |-> [st.new EXCEPT ![nr][nc] = cell],
              changed |-> st.changed \/ (cell # self[nr][nc]),
              failed  |-> is_empty(cell)]
    ELSE st

\* One pass of `for i in 0..9`: remove_d_at(r, i)?; remove_d_at(i, c)?;
\* remove_d_at(qr + i / 3, qc + i % 3)?
RemoveStep(self, st, r, c, d, i) ==
    Let(remove_d_at(self, st, r, c, d, r, i), LAMBDA s1 :
    Let(remove_d_at(self, s1, r, c, d, i, c), LAMBDA s2 :
        remove_d_at(self, s2, r, c, d,
                    quad_of(r, c)[1] + (i \div BoxSide), quad_of(r, c)[2] + (i % BoxSide))))

\* for i in 0..9 { ... } around the fixed cell (r, c) holding d
RemoveAround(self, st, r, c, d) ==
    FoldRange(LAMBDA s, i : RemoveStep(self, s, r, c, d, i), st, 0, Side - 1)

\* The body of the two nested loops of without_conflicts for the cell of
\* self at p = r * 9 + c
ConflictStep(self, st, p) ==
    Let(<< p \div Side, p % Side >>, LAMBDA rc :
    Let(self[rc[1]][rc[2]], LAMBDA cell :
        IF st.failed THEN st
        ELSE IF len(cell) = 0 THEN [st EXCEPT !.failed = TRUE]
        ELSE IF len(cell) = 1
        THEN Let(first_digit(cell), LAMBDA d : RemoveAround(self, st, rc[1], rc[2], d))
        ELSE st))

\* for r in 0..9 { for (c, cell) in row.iter().enumerate() { ... } }
ConflictScan(self, st) ==
    FoldRange(LAMBDA s, p : ConflictStep(self, s, p), st, 0, NCells - 1)

\* A faulty without_conflicts: the contradiction is not reported
without_conflicts_nofail(self) ==
    Let(ConflictScan(self, [new |-> self, changed |-> FALSE, failed |-> FALSE]), LAMBDA st :
        Some([sudoku |-> st.new, changed |-> st.changed]))

\* Sudoku::without_conflicts: None, or Some of [sudoku, changed]
without_conflicts(self) ==
    Let(ConflictScan(self, [new |-> self, changed |-> FALSE, failed |-> FALSE]), LAMBDA st :
        IF st.failed THEN None ELSE Some([sudoku |-> st.new, changed |-> st.changed]))

\* The three ranges find_unambiguities scans for index i: row i, column i and
\* the box with origin (i / 3 * 3, i % 3 * 3), each as nine (r, c) pairs.
RowRange == [i \in Idx |-> [k \in 1 .. Side |-> << i, k - 1 >>]]
ColRange == [i \in Idx |-> [k \in 1 .. Side |-> << k - 1, i >>]]
QuadRange ==
    [i \in Idx |-> [k \in 1 .. Side |->
        << ((i \div BoxSide) * BoxSide) + ((k - 1) \div BoxSide),
           ((i % BoxSide) * BoxSide) + ((k - 1) % BoxSide) >>]]

\* A faulty scan: a second cell holding d does not reset digit_ix
RECURSIVE ScanRange_first(_, _, _, _, _)
ScanRange_first(s, d, rng, k, digit_ix) ==
    IF k > Len(rng) THEN digit_ix
    ELSE LET cell == s[rng[k][1]][rng[k][2]]
         IN  IF ~has_digit(cell, d) THEN ScanRange_first(s, d, rng, k + 1, digit_ix)
             ELSE IF len(cell) = 1 THEN None
             ELSE IF digit_ix = None THEN ScanRange_first(s, d, rng, k + 1, Some(rng[k]))
             ELSE ScanRange_first(s, d, rng, k + 1, digit_ix)

\* The scan loop of find_unambiguity: digit_ix after the loop (None or
\* Some((r, c))), starting at element k of rng with digit_ix as given.
RECURSIVE ScanRange(_, _, _, _, _)
ScanRange(s, d, rng, k, digit_ix) ==
    IF k > Len(rng) THEN digit_ix
    ELSE LET cell == s[rng[k][1]][rng[k][2]]
         IN  IF ~has_digit(cell, d) THEN ScanRange(s, d, rng, k + 1, digit_ix)
             ELSE IF len(cell) = 1 THEN None
             ELSE IF digit_ix = None THEN ScanRange(s, d, rng, k + 1, Some(rng[k]))
             ELSE None

\* A faulty find_unambiguity: the cell is fixed but the change is not reported
find_unambiguity_silent(st, d, rng) ==
    Let(ScanRange(st.sudoku, d, rng, 1, None), LAMBDA digit_ix :
        IF IsSome(digit_ix)
        THEN [sudoku  |-> [st.sudoku EXCEPT ![Unwrap(digit_ix)[1]][Unwrap(digit_ix)[2]]
                                                = Unwrap(from_digit(d))],
              changed |-> st.changed]
        ELSE st)

\* Sudoku::find_unambiguity on st = [sudoku, changed]: the grid after the call
\* and the flag or-ed with the call's result.
find_unambiguity(st, d, rng) ==
    Let(ScanRange(st.sudoku, d, rng, 1, None), LAMBDA digit_ix :
        IF IsSome(digit_ix)
        THEN [sudoku  |-> [st.sudoku EXCEPT ![Unwrap(digit_ix)[1]][Unwrap(digit_ix)[2]]
                                                = Unwrap(from_digit(d))],
              changed |-> TRUE]
        ELSE st)

\* The body of the loops of find_unambiguities for the n-th (i, d) pair,
\* i = n / 9 and d = n % 9 + 1: the row, the column and the box of index i
UnambiguityStep(st, n) ==
    LET i == n \div 9
        d == (n % 9) + 1
    IN  Let(find_unambiguity(st, d, RowRange[i]), LAMBDA s1 :
        Let(find_unambiguity(s1, d, ColRange[i]), LAMBDA s2 :
            find_unambiguity(s2, d, QuadRange[i])))

\* for i in 0..9 { for d in 1..=9 { ... } }
UnambiguityScan(st) == FoldRange(UnambiguityStep, st, 0, (Side * 9) - 1)

\* A faulty find_unambiguities: a change is reported on every call
find_unambiguities_restless(self) ==
    [sudoku |-> UnambiguityScan([sudoku |-> self, changed |-> FALSE]).sudoku, changed |-> TRUE]

\* Sudoku::find_unambiguities: [sudoku, changed]
find_unambiguities(self) == UnambiguityScan([sudoku |-> self, changed |-> FALSE])

\* Sudoku::simplified: None, or Some of [sudoku, changed]
simplified(self) ==
    Let(without_conflicts(self), LAMBDA wc :
        IF ~IsSome(wc) THEN None
        ELSE Let(find_unambiguities(Unwrap(wc).sudoku), LAMBDA fu :
                 Some([sudoku |-> fu.sudoku, changed |-> fu.changed \/ Unwrap(wc).changed])))

---------------------------------------------------------------------------
(* Inputs: puzzles as nine row numbers, a 0 digit standing for '.' *)

\* The character of digit code n: '.' for 0, the decimal digit otherwise
CharOfCode(n) == IF n = 0 THEN "." ELSE DigitChars[n + 1]

Pow10(e) == CASE e = 0 -> 1 [] e = 1 -> 10 [] e = 2 -> 100 [] e = 3 -> 1000
              [] e = 4 -> 10000 [] e = 5 -> 100000 [] e = 6 -> 1000000
              [] e = 7 -> 10000000 [] e = 8 -> 100000000

\* The 81-character line of nine row numbers
LineOfRows(rows) ==
    [i \in 1 .. NCells |->
        CharOfCode((rows[((i - 1) \div Side) + 1] \div Pow10(Side - 1 - ((i - 1) % Side))) % 10)]

\* The puzzles of tests::test_solve_1 .. test_solve_4, in source order
TestPuzzles == <<
    << 040000179, 002008054, 006005008, 080070910, 050090030, 019060040, 300400700, 570100200, 928000060 >>,
    << 802050701, 007082460, 010900000, 600001832, 500000009, 184300006, 000004020, 095610300, 308090607 >>,
    << 000000007, 720309001, 008705060, 502890000, 040501090, 000063705, 030906100, 200107053, 900000000 >>,
    << 206000049, 037009000, 100700006, 000580900, 705000804, 009062000, 900004001, 000300490, 410000208 >>,
    << 025007004, 001005020, 700020500, 509004800, 000000000, 007500609, 003070006, 040100700, 800200910 >>,
    << 001725000, 080010006, 250000130, 070000500, 000106000, 009000080, 045000029, 700090060, 000648300 >>,
    << 050200000, 300005080, 960078200, 000030020, 708000103, 040080000, 001640032, 070500001, 000009050 >>,
    << 800200046, 007900000, 100000500, 000500032, 408000701, 320007000, 006000009, 000003200, 280006003 >>,
    << 001725000, 080010000, 250000130, 070000500, 000186000, 009000080, 045000029, 000090060, 000648300 >>,
    << 346795812, 258431697, 971862543, 129576438, 835214769, 764389251, 517948326, 493627185, 682153974 >>,
    << 000000012, 008030000, 000000040, 120500000, 000004700, 060000000, 507000300, 000620000, 000100000 >>
>>

\* The solved line of test_solve_4, the base of the derived puzzles
SolvedLine == LineOfRows(TestPuzzles[10])

\* The line with the positions of ps (0-based, row-major) replaced by '.'
ClearAt(line, ps) == [i \in 1 .. NCells |-> IF (i - 1) \in ps THEN "." ELSE line[i]]

\* The line with the character at position p (0-based) replaced by ch
PutAt(line, p, ch) == [line EXCEPT ![p + 1] = ch]

\* k positions from start, stride apart (modulo the number of cells)
StridePositions(start, stride, k) == {(start + j * stride) % NCells : j \in 0 .. (k - 1)}

\* Bounds of the input families.
MaxCleared == 20
MaxCalls == 3

Strides == {1, 7, 20}

TestLines == {LineOfRows(TestPuzzles[b]) : b \in 1 .. Len(TestPuzzles)}

\* The text of the all-open grid, the grid generate_solvable solves
OpenLine == [i \in 1 .. NCells |-> "."]

\* The solved line with k cells cleared
ClearedLines ==
    {ClearAt(SolvedLine, StridePositions(0, st, k)) : st \in Strides, k \in 0 .. MaxCleared}

\* Lines with the digit of (r, c1) repeated at (r, c2) of the same row, for c1
\* in DupCols
DupBases == {SolvedLine, LineOfRows(TestPuzzles[1])}
DupCols == {0, 4, 8}
RowDupsOf(l) ==
    {PutAt(l, x[1] * Side + x[3], l[x[1] * Side + x[2] + 1]) :
        x \in {y \in Idx \X DupCols \X Idx : y[2] # y[3] /\ l[y[1] * Side + y[2] + 1] # "."}}
RowDupLines == UNION {RowDupsOf(l) : l \in DupBases}

\* Lines from_line rejects: a wrong length, a '0', a letter
BadLines ==
    {SubSeq(SolvedLine, 1, NCells - 1), Append(SolvedLine, "1"),
     PutAt(SolvedLine, 40, "0"), PutAt(SolvedLine, 80, "a")}

InputLines == TestLines \cup {OpenLine} \cup ClearedLines \cup RowDupLines \cup BadLines

---------------------------------------------------------------------------
(* SolutionsIter *)

VARIABLES
    line,             \* the text given to from_line / built by to_line
    parsed,           \* from_line(line): None or Some(g)
    pc,               \* where the caller / next() / generate_solvable stands
    stack,            \* SolutionsIter::stack
    solution,         \* the local `solution` of next()
    result,           \* the value the last call of next() returned
    calls,            \* calls of next() made so far
    yielded,          \* the grids returned so far, in order
    aborted,          \* an unwrap() on None or an overflow check has panicked
    free_cells,       \* the argument of generate_solvable
    rng,              \* the state of the random source
    cells_to_choose,  \* the local vector of generate_solvable
    sudoku,           \* the local grid of generate_solvable / the grid of to_line
    picked,           \* iterations of the clearing loop done
    gen,              \* what generate_solvable returned: None or Some(grid)
    phase             \* the caller: "solve", "generate", "check" or "line"

svars == << line, parsed, pc, stack, solution, result, calls, yielded, aborted >>
gvars == << free_cells, rng, cells_to_choose, sudoku, picked, gen, phase >>
vars == << line, parsed, pc, stack, solution, result, calls, yielded, aborted,
           free_cells, rng, cells_to_choose, sudoku, picked, gen, phase >>

\* A faulty filter: cell.len() > 2
OpenCells_gt2(s) == {p \in 0 .. (NCells - 1) : len(s[p \div Side][p % Side]) > 2}

\* The cells (r, c, cell) with more than one candidate, in row-major order,
\* as the filter of next() leaves them: positions p = r * 9 + c
OpenCells(s) == {p \in 0 .. (NCells - 1) : len(s[p \div Side][p % Side]) > 1}

\* min_by_key(len): the first of the cells of least len in iteration order
MinCell(s) ==
    CHOOSE p \in OpenCells(s) :
        \A q \in OpenCells(s) :
            LET lp == len(s[p \div Side][p % Side])
                lq == len(s[q \div Side][q % Side])
            IN  lp < lq \/ (lp = lq /\ p <= q)

\* A faulty Excluded child: the lowest digit of the cell is removed instead of
\* the one the Fixed child holds
ExcludedChild_lowest(s, r, c) ==
    [s EXCEPT ![r][c] = remove_digit(s[r][c], CHOOSE x \in s[r][c] : \A y \in s[r][c] : x <= y)]

\* The two candidates next() pushes for the cell at (r, c): the one without
\* the cell's first digit, and the one with the cell fixed to it.
ExcludedChild(s, r, c) == [s EXCEPT ![r][c] = remove_digit(s[r][c], first_digit(s[r][c]))]
FixedChild(s, r, c) == [s EXCEPT ![r][c] = Unwrap(from_digit(first_digit(s[r][c])))]

\* The pushes of next(), in order
PushChildren(stk, s, r, c) == Append(Append(stk, ExcludedChild(s, r, c)), FixedChild(s, r, c))

Init ==
    /\ line \in InputLines
    /\ parsed = None
    /\ pc = "parse"
    /\ stack = << >>
    /\ solution = None
    /\ result = None
    /\ calls = 0
    /\ yielded = << >>
    /\ aborted = FALSE
    /\ free_cells = 0
    /\ rng = 0
    /\ cells_to_choose = << >>
    /\ sudoku = None
    /\ picked = 0
    /\ gen = None
    /\ phase = "solve"

\* from_line(line), then solutions() of the grid: the stack holds a clone of it
Parse ==
    /\ pc = "parse"
    /\ parsed' = from_line(line)
    /\ IF IsSome(parsed')
       THEN /\ stack' = << Unwrap(parsed') >>
            /\ pc' = "idle"
       ELSE /\ stack' = stack
            /\ pc' = "rejected"
    /\ UNCHANGED << line, solution, result, calls, yielded, aborted >>
    /\ UNCHANGED gvars

\* The caller calls next()
Call ==
    /\ pc = "idle"
    /\ calls < MaxCalls
    /\ calls' = calls + 1
    /\ pc' = "pop"
    /\ UNCHANGED << line, parsed, stack, solution, result, yielded, aborted >>
    /\ UNCHANGED gvars

\* self.stack.pop()? on an empty stack: next() returns None
Exhausted ==
    /\ pc = "pop"
    /\ stack = << >>
    /\ result' = None
    /\ pc' = "idle"
    /\ UNCHANGED << line, parsed, stack, solution, calls, yielded, aborted >>
    /\ UNCHANGED gvars

\* let mut solution = self.stack.pop()?
Pop ==
    /\ pc = "pop"
    /\ stack # << >>
    /\ solution' = stack[Len(stack)]
    /\ stack' = SubSeq(stack, 1, Len(stack) - 1)
    /\ pc' = "simplify"
    /\ UNCHANGED << line, parsed, result, calls, yielded, aborted >>
    /\ UNCHANGED gvars

\* One iteration of the inner loop: solution.simplified()
Simplify ==
    /\ pc = "simplify"
    /\ \E res \in {simplified(solution)} :
           \/ /\ ~IsSome(res)            \* break true; no_solution: continue
              /\ pc' = "pop"
              /\ solution' = solution
           \/ /\ IsSome(res)
              /\ Unwrap(res).changed     \* go round again
              /\ solution' = Unwrap(res).sudoku
              /\ pc' = "simplify"
           \/ /\ IsSome(res)
              /\ ~Unwrap(res).changed    \* break false
              /\ solution' = Unwrap(res).sudoku
              /\ pc' = "settled"
    /\ UNCHANGED << line, parsed, stack, result, calls, yielded, aborted >>
    /\ UNCHANGED gvars

\* A faulty return: the grid at the fixpoint is returned without is_solved()
Yield_unchecked ==
    /\ pc = "settled"
    /\ result' = Some(solution)
    /\ yielded' = Append(yielded, solution)
    /\ pc' = "idle"
    /\ UNCHANGED << line, parsed, stack, solution, calls, aborted >>
    /\ UNCHANGED gvars

\* if solution.is_solved() { return Some(solution); }
Yield ==
    /\ pc = "settled"
    /\ is_solved(solution)
    /\ result' = Some(solution)
    /\ yielded' = Append(yielded, solution)
    /\ pc' = "idle"
    /\ UNCHANGED << line, parsed, stack, solution, calls, aborted >>
    /\ UNCHANGED gvars

\* The selection of the cell and the two pushes; the unwrap() of min_by_key
\* panics when no cell has more than one candidate.
Branch ==
    /\ pc = "settled"
    /\ ~is_solved(solution)
    /\ IF OpenCells(solution) = {}
       THEN /\ aborted' = TRUE
            /\ pc' = "aborted"
            /\ stack' = stack
       ELSE LET p == MinCell(solution)
            IN  /\ stack' = PushChildren(stack, solution, p \div Side, p % Side)
                /\ pc' = "pop"
                /\ aborted' = aborted
    /\ UNCHANGED << line, parsed, solution, result, calls, yielded >>
    /\ UNCHANGED gvars

Next == Parse \/ Call \/ Exhausted \/ Pop \/ Simplify \/ Yield \/ Branch

Spec == Init /\ [][Next]_vars

---------------------------------------------------------------------------
(* The fixpoint loop of next() as one operator *)

\* loop { match solution.simplified() { ... } }: None when a round reports a
\* contradiction (no_solution), Some(grid) when a round reports no change
RECURSIVE SimplifyLoop(_)
SimplifyLoop(s) ==
    Let(simplified(s), LAMBDA res :
        IF ~IsSome(res) THEN None
        ELSE IF ~Unwrap(res).changed THEN Some(Unwrap(res).sudoku)
        ELSE SimplifyLoop(Unwrap(res).sudoku))

---------------------------------------------------------------------------
(* next() as one operator, and first_solution *)

\* At most 2^k applications of Step to st, stopping at the first state that
\* is done; the first half is computed before the second is entered.
RECURSIVE Iterate(_, _, _)
Iterate(Step(_), st, k) ==
    IF st.done THEN st
    ELSE IF k = 0 THEN Let(st, Step)
    ELSE Let(Iterate(Step, st, k - 1), LAMBDA half : Iterate(Step, half, k - 1))

\* One pass of the outer loop of next(): done is set when next() returns or
\* the unwrap() of min_by_key panics
NextStep(st) ==
    IF st.stack = << >> THEN [st EXCEPT !.result = None, !.done = TRUE]
    ELSE Let(SimplifyLoop(st.stack[Len(st.stack)]), LAMBDA fix :
         Let(SubSeq(st.stack, 1, Len(st.stack) - 1), LAMBDA rest :
             IF ~IsSome(fix) THEN [st EXCEPT !.stack = rest]
             ELSE IF is_solved(Unwrap(fix))
             THEN [st EXCEPT !.stack = rest, !.result = fix, !.done = TRUE]
             ELSE IF OpenCells(Unwrap(fix)) = {}
             THEN [st EXCEPT !.stack = rest, !.aborted = TRUE, !.done = TRUE]
             ELSE Let(MinCell(Unwrap(fix)), LAMBDA p :
                      [st EXCEPT !.stack = PushChildren(rest, Unwrap(fix),
                                                        p \div Side, p % Side)])))

\* The outer loop of next() from the stack stk, for at most 2^LoopDepth
\* passes: the value next() returns, the stack it leaves, whether it
\* panicked, and whether it returned or panicked within these passes.
LoopDepth == 7
NextLoop(stk) ==
    Iterate(NextStep, [stack |-> stk, result |-> None, aborted |-> FALSE, done |-> FALSE],
            LoopDepth)

\* Sudoku::first_solution: self.solutions().next(), with the panic flag
first_solution(self) == NextLoop(<< self >>)

---------------------------------------------------------------------------
(* generate_solvable *)

\* Sudoku { cells: [[Cell::all_digits(); 9]; 9] }
AllOpen == GridOf(LAMBDA r, c : all_digits)

\* The grid generate_solvable starts from: first_solution() of the open
\* grid, the same in every call
BaseSolution == first_solution(AllOpen)

\* The random source: a state in 0 .. RngMod - 1 stepped by a linear
\* congruence; gen_range(low, high) draws low + state % (high - low).
RngMod == 65537
RngMul == 75
RngInc == 74
NextRng(s) == ((s * RngMul) + RngInc) % RngMod
gen_range(s, low, high) == low + (s % (high - low))

\* Swap of the elements at 0-based positions i and j of the vector v
SwapAt(v, i, j) == [v EXCEPT ![i + 1] = v[j + 1], ![j + 1] = v[i + 1]]

\* One step of the shuffle for i = NCells - 1 - k: swap(i, gen_range(0, i + 1))
ShuffleStep(st, k) ==
    [v   |-> SwapAt(st.v, NCells - 1 - k, gen_range(st.rng, 0, NCells - k)),
     rng |-> NextRng(st.rng)]

\* cells_to_choose.shuffle(rng) on (0..81).collect(): the vector and the
\* random source after it
shuffle(s) ==
    FoldRange(ShuffleStep, [v |-> [k \in 1 .. NCells |-> k - 1], rng |-> s], 0, NCells - 2)

\* A faulty swap_remove: the element is read but stays in the vector
swap_remove_keep(v, index) == [item |-> v[index + 1], v |-> v]

\* Vec::swap_remove(index): the element at index, and the vector with the
\* last element moved into its place
swap_remove(v, index) ==
    [item |-> v[index + 1],
     v    |-> SubSeq([v EXCEPT ![index + 1] = v[Len(v)]], 1, Len(v) - 1)]

\* A faulty guard: one more free cell than the grid has is let through
TooManyFreeCells_late(n) == n > NCells + 1

\* if free_cells > 81
TooManyFreeCells(n) == n > NCells

\* The arguments of the calls: free-cell counts up to MaxFree, every
\* FreeStep-th one below the size of the grid and all of them from there on,
\* and NumSeeds random sources.
MaxFree == 83
FreeStep == 5
NumSeeds == 2
FreeCellCounts == {n \in 0 .. MaxFree : n % FreeStep = 0 \/ n >= NCells - 1}
Seeds == {(s * 12345) % RngMod : s \in 1 .. NumSeeds}

\* The start of a call of generate_solvable(rng, free_cells)
GenInit ==
    /\ pc = "gen"
    /\ free_cells \in FreeCellCounts
    /\ rng \in Seeds
    /\ cells_to_choose = << >>
    /\ sudoku = None
    /\ picked = 0
    /\ gen = None
    /\ phase = "generate"
    /\ line = << >>
    /\ parsed = None
    /\ stack = << >>
    /\ solution = None
    /\ result = None
    /\ calls = 0
    /\ yielded = << >>
    /\ aborted = FALSE

\* if free_cells > 81 { return None; }
GenReject ==
    /\ pc = "gen"
    /\ TooManyFreeCells(free_cells)
    /\ gen' = None
    /\ pc' = "gen_none"
    /\ UNCHANGED << free_cells, rng, cells_to_choose, sudoku, picked, phase >>
    /\ UNCHANGED << line, parsed, stack, solution, result, calls, yielded, aborted >>

\* The shuffle of 0..81 and the first solution of the open grid, whose
\* unwrap() panics on None
GenStart ==
    /\ pc = "gen"
    /\ ~TooManyFreeCells(free_cells)
    /\ \E sh \in {shuffle(rng)} :
           /\ cells_to_choose' = sh.v
           /\ rng' = sh.rng
    /\ \E fs \in {BaseSolution} :
           IF fs.done /\ IsSome(fs.result)
           THEN /\ sudoku' = fs.result
                /\ pc' = "clear"
                /\ aborted' = aborted
           ELSE /\ sudoku' = sudoku
                /\ pc' = IF fs.done THEN "aborted" ELSE "running"
                /\ aborted' = fs.done
    /\ UNCHANGED << free_cells, picked, gen, phase >>
    /\ UNCHANGED << line, parsed, stack, solution, result, calls, yielded >>

\* One pass of `for _ in 0..free_cells`: the cell at a random element of
\* cells_to_choose is set to all_digits; gen_range panics on an empty range.
GenClear ==
    /\ pc = "clear"
    /\ picked < free_cells
    /\ IF Len(cells_to_choose) = 0
       THEN /\ aborted' = TRUE
            /\ pc' = "aborted"
            /\ UNCHANGED << rng, cells_to_choose, sudoku, picked >>
       ELSE \E sr \in {swap_remove(cells_to_choose,
                                   gen_range(rng, 0, Len(cells_to_choose)))} :
                /\ cells_to_choose' = sr.v
                /\ sudoku' = Some([Unwrap(sudoku) EXCEPT
                                      ![sr.item \div Side][sr.item % Side] = all_digits])
                /\ rng' = NextRng(rng)
                /\ picked' = picked + 1
                /\ pc' = pc
                /\ aborted' = aborted
    /\ UNCHANGED << free_cells, gen, phase >>
    /\ UNCHANGED << line, parsed, stack, solution, result, calls, yielded >>

\* Some(sudoku)
GenReturn ==
    /\ pc = "clear"
    /\ picked = free_cells
    /\ gen' = sudoku
    /\ pc' = "gen_some"
    /\ UNCHANGED << free_cells, rng, cells_to_choose, sudoku, picked, phase >>
    /\ UNCHANGED << line, parsed, stack, solution, result, calls, yielded, aborted >>

\* The caller of the tests: sudoku.first_solution() on the grid returned
GenCheck ==
    /\ pc = "gen_some"
    /\ \E fs \in {first_solution(Unwrap(gen))} :
           /\ result' = fs.result
           /\ stack' = fs.stack
           /\ aborted' = fs.aborted
           /\ pc' = IF fs.done THEN "checked" ELSE "running"
    /\ calls' = calls + 1
    /\ phase' = "check"
    /\ UNCHANGED << free_cells, rng, cells_to_choose, sudoku, picked, gen >>
    /\ UNCHANGED << line, parsed, solution, yielded >>

GenNext == GenReject \/ GenStart \/ GenClear \/ GenReturn \/ GenCheck

GenSpec == GenInit /\ [][GenNext]_vars

---------------------------------------------------------------------------
(* to_line and from_line on solved grids *)

\* The grid of nine row numbers, each cell fixed to its digit
GridOfRows(rows) == GridOf(LAMBDA r, c : {(rows[r + 1] \div Pow10(Side - 1 - c)) % 10})

\* Solved grids: the solved grid of the tests with its digits renamed by a
\* shift, its bands and stacks of three rows and columns rotated, and
\* transposed
MaxShift == 8
MaxTurn == 2
Relabel(s, k) == GridOf(LAMBDA r, c : {((d - 1 + k) % Side) + 1 : d \in s[r][c]})
RotateBands(s, k) == GridOf(LAMBDA r, c : s[(r + (BoxSide * k)) % Side][c])
RotateStacks(s, k) == GridOf(LAMBDA r, c : s[r][(c + (BoxSide * k)) % Side])
Transpose(s) == GridOf(LAMBDA r, c : s[c][r])
TurnedGrids ==
    {RotateBands(RotateStacks(GridOfRows(TestPuzzles[10]), j), i) : i, j \in 0 .. MaxTurn}
SolvedGrids ==
    {Relabel(t, k) : t \in TurnedGrids \cup {Transpose(u) : u \in TurnedGrids},
                     k \in 0 .. MaxShift}

\* A solved grid in hand
LineInit ==
    /\ pc = "grid"
    /\ sudoku \in {Some(s) : s \in SolvedGrids}
    /\ line = << >>
    /\ parsed = None
    /\ stack = << >>
    /\ solution = None
    /\ result = None
    /\ calls = 0
    /\ yielded = << >>
    /\ aborted = FALSE
    /\ free_cells = 0
    /\ rng = 0
    /\ cells_to_choose = << >>
    /\ picked = 0
    /\ gen = None
    /\ phase = "line"

\* sudoku.to_line()
ToLine ==
    /\ pc = "grid"
    /\ line' = to_line(Unwrap(sudoku))
    /\ pc' = "line"
    /\ UNCHANGED << parsed, stack, solution, result, calls, yielded, aborted >>
    /\ UNCHANGED gvars

\* Sudoku::from_line(line)
FromLine ==
    /\ pc = "line"
    /\ parsed' = from_line(line)
    /\ pc' = "parsed"
    /\ UNCHANGED << line, stack, solution, result, calls, yielded, aborted >>
    /\ UNCHANGED gvars

LineNext == ToLine \/ FromLine

LineSpec == LineInit /\ [][LineNext]_vars

---------------------------------------------------------------------------
(* solutions() run to exhaustion *)

\* The line l with every cell holding a digit of D cleared
ClearDigits(l, D) ==
    [i \in 1 .. NCells |-> IF \E d \in D : DigitChars[d + 1] = l[i] THEN "." ELSE l[i]]

\* The inputs: the solved line of the tests with the cells of one digit or of
\* two digits cleared (one, two, four or eight completions), the lines with
\* cells cleared along a stride, and a line with the first digit of a row
\* repeated at the end of the row (no completion); the caller makes up to
\* MaxEnumCalls calls of next().
MaxEnumCalls == 9
DigitCleared == {ClearDigits(SolvedLine, {a, b}) : a, b \in 1 .. 9}
DupOf(l) ==
    {PutAt(l, r * Side + (Side - 1), l[r * Side + 1]) : r \in {q \in Idx : l[q * Side + 1] # "."}}
EnumLines == DigitCleared \cup ClearedLines \cup DupOf(ClearDigits(SolvedLine, {1, 9}))

EnumInit ==
    /\ line \in EnumLines
    /\ parsed = None
    /\ pc = "parse"
    /\ stack = << >>
    /\ solution = None
    /\ result = None
    /\ calls = 0
    /\ yielded = << >>
    /\ aborted = FALSE
    /\ free_cells = 0
    /\ rng = 0
    /\ cells_to_choose = << >>
    /\ sudoku = None
    /\ picked = 0
    /\ gen = None
    /\ phase = "solve"

\* The caller calls next(), after None was returned too
EnumCall ==
    /\ pc = "idle"
    /\ calls < MaxEnumCalls
    /\ calls' = calls + 1
    /\ pc' = "pop"
    /\ UNCHANGED << line, parsed, stack, solution, result, yielded, aborted >>
    /\ UNCHANGED gvars

EnumNext == Parse \/ EnumCall \/ Exhausted \/ Pop \/ Simplify \/ Yield \/ Branch

EnumSpec == EnumInit /\ [][EnumNext]_vars

---------------------------------------------------------------------------
(* Properties of the solution iterator *)

\* The grid solutions() was called on
g == Unwrap(parsed)

\* The nine positions of each row, column and box
Units ==
    {{<< r, c >> : c \in Idx} : r \in Idx}
    \cup {{<< r, c >> : r \in Idx} : c \in Idx}
    \cup {{<< br * BoxSide + i, bc * BoxSide + j >> : i, j \in 0 .. (BoxSide - 1)} :
            br, bc \in 0 .. (BoxSide - 1)}

\* A solved grid, stated without the code: every cell holds one digit and
\* every row, column and box holds each digit of 1..9
SolvedGrid(s) ==
    /\ \A r, c \in Idx : Cardinality(s[r][c]) = 1
    /\ \A u \in Units : UNION {s[x[1]][x[2]] : x \in u} = 1 .. 9

\* s is a completion of t: s is solved and its digit at each position is a
\* candidate of t's cell there
Completes(s, t) == (\A r, c \in Idx : s[r][c] \subseteq t[r][c]) /\ SolvedGrid(s)

\* The completion known for the puzzles derived from the solved test line
KnownSolved == Unwrap(from_line(SolvedLine))

\* Two cells of one row fixed to the same digit
HasRowDuplicate(s) ==
    \E r, c1, c2 \in Idx : c1 # c2 /\ len(s[r][c1]) = 1 /\ s[r][c1] = s[r][c2]

\* C1: every grid next() has returned is solved (by is_solved and by the
\* definition of a solved grid) and keeps every cell that was a singleton in
\* the grid solutions() was called on.
C1_Soundness ==
    \A k \in 1 .. Len(yielded) :
        /\ is_solved(yielded[k])
        /\ SolvedGrid(yielded[k])
        /\ \A r, c \in Idx : len(g[r][c]) = 1 => yielded[k][r][c] = g[r][c]

\* C1 witness: a second solution has been returned for a puzzle with fixed
\* and with open cells.
C1_Witness ==
    /\ Len(yielded) >= 2
    /\ \E r, c \in Idx : len(g[r][c]) = 1
    /\ \E r, c \in Idx : len(g[r][c]) > 1

\* C2: once the first call of next() on a grid with a valid completion is
\* over, it has returned a grid, that grid is solved and completes the grid
\* given, and no panic occurred.  The grids with a completion are those the
\* solved grid of the tests completes and the puzzles of the tests.
C2_FirstSolution ==
    (IsSome(parsed) /\ (Completes(KnownSolved, g) \/ line \in TestLines)) =>
        /\ pc # "aborted"
        /\ (calls >= 1 /\ pc = "idle") =>
              /\ Len(yielded) >= 1
              /\ is_solved(yielded[1])
              /\ Completes(yielded[1], g)
              /\ (calls = 1 => result = Some(yielded[1]))

\* C2 witness: the first call has returned a solution of a puzzle with open
\* cells that is not the known completion (the search found another one).
C2_Witness ==
    /\ IsSome(parsed)
    /\ Completes(KnownSolved, g)
    /\ calls = 1
    /\ pc = "idle"
    /\ IsSome(result)
    /\ Unwrap(result) # KnownSolved

\* C5: on a grid with two cells of one row fixed to the same digit no grid is
\* ever returned, no panic occurs and the first call returns None.
C5_RowDuplicate ==
    (IsSome(parsed) /\ HasRowDuplicate(g)) =>
        /\ yielded = << >>
        /\ pc # "aborted"
        /\ pc # "settled"
        /\ (calls >= 1 /\ pc = "idle") => (result = None /\ stack = << >>)

\* C5 witness: the first call on such a grid, one with open cells too, has
\* returned None.
C5_Witness ==
    /\ IsSome(parsed)
    /\ HasRowDuplicate(g)
    /\ \E r, c \in Idx : len(g[r][c]) > 1
    /\ calls = 1
    /\ pc = "idle"
    /\ result = None

\* C6: the grid P the fixpoint loop ends with is left as it is by the same
\* loop: the loop run on P ends without contradiction and returns P.
C6_Idempotent == (pc = "settled") => (SimplifyLoop(solution) = Some(solution))

\* C6 witness: the loop has ended after several rounds on a grid that is not
\* solved (propagation changed the popped grid and left open cells).
C6_Witness ==
    /\ pc = "settled"
    /\ ~is_solved(solution)
    /\ Len(stack) >= 1
    /\ simplified(solution) = Some([sudoku |-> solution, changed |-> FALSE])

\* C9: no panic: next() never aborts; a grid that reached the fixpoint holds
\* no empty cell, and when it is not solved it holds a cell with two or more
\* candidates, so that min_by_key finds a cell and first_digit is applied to
\* a non-empty cell.
C9_NoAbort ==
    /\ ~aborted
    /\ pc # "aborted"
    /\ (pc = "settled") =>
          /\ \A r, c \in Idx : solution[r][c] # {}
          /\ ~is_solved(solution) =>
                /\ OpenCells(solution) # {}
                /\ len(solution[MinCell(solution) \div Side][MinCell(solution) % Side]) >= 2

\* C9 witness: an unsolved grid at the fixpoint, two or more grids pending
\* below it (the search is deep in backtracking).
C9_Witness ==
    /\ pc = "settled"
    /\ ~is_solved(solution)
    /\ Len(stack) >= 2

\* C10: a branching step pushes, on top of the unchanged stack, first the
\* grid with the highest candidate of one open cell removed and then the
\* grid with that cell fixed to it; a pop takes the top of the stack; and no
\* other step of next() touches the stack.
C10_BranchOrder ==
    [][ /\ (pc = "settled" /\ pc' = "pop") =>
            \E r, c \in Idx :
                LET cell == solution[r][c]
                    d    == MaxOf(cell)
                IN  /\ Cardinality(cell) >= 2
                    /\ Len(stack') = Len(stack) + 2
                    /\ SubSeq(stack', 1, Len(stack)) = stack
                    /\ stack'[Len(stack) + 1] = [solution EXCEPT ![r][c] = cell \ {d}]
                    /\ stack'[Len(stack) + 2] = [solution EXCEPT ![r][c] = {d}]
        /\ (pc = "pop" /\ stack # << >>) =>
            /\ solution' = stack[Len(stack)]
            /\ stack' = SubSeq(stack, 1, Len(stack) - 1)
        /\ (pc \in {"idle", "simplify"} \/ (pc = "settled" /\ pc' # "pop")) =>
            stack' = stack
      ]_vars

\* C10 witness: the grid just popped is the Fixed child of a branching step
\* and its Excluded sibling lies on top of the stack, above older grids.
C10_Witness ==
    /\ pc = "simplify"
    /\ Len(stack) >= 3
    /\ \E r, c \in Idx :
          /\ Cardinality(solution[r][c]) = 1
          /\ stack[Len(stack)][r][c] # {}
          /\ \A d \in stack[Len(stack)][r][c] : d < MaxOf(solution[r][c])
          /\ \A r2, c2 \in Idx :
                (r2 # r \/ c2 # c) => stack[Len(stack)][r2][c2] = solution[r2][c2]

---------------------------------------------------------------------------
(* Properties of generate_solvable *)

\* The positions of the cells of s that are not singletons
NonSingletons(s) == {p \in 0 .. (NCells - 1) : Cardinality(s[p \div Side][p % Side]) # 1}

\* C3: a call of generate_solvable with free_cells <= 81 neither panics nor
\* returns None; the grid it returns has exactly free_cells cells that are
\* not singletons, each of them holding all nine digits, picked at distinct
\* positions; and first_solution() on that grid returns a solved grid that
\* completes it.
C3_GeneratorValid ==
    (free_cells <= NCells) =>
        /\ ~aborted
        /\ pc \notin {"gen_none", "aborted", "running"}
        /\ (pc \in {"gen_some", "checked"}) =>
              /\ IsSome(gen)
              /\ Cardinality(NonSingletons(Unwrap(gen))) = free_cells
              /\ \A p \in NonSingletons(Unwrap(gen)) :
                     Unwrap(gen)[p \div Side][p % Side] = 1 .. 9
              /\ Len(cells_to_choose) = NCells - free_cells
        /\ (pc = "checked") =>
              /\ IsSome(result)
              /\ Completes(Unwrap(result), Unwrap(gen))

\* C3 witness: first_solution() has returned on a generated grid with all 81
\* cells cleared, and on one with 40 cells cleared.
C3_Witness ==
    /\ pc = "checked"
    /\ free_cells \in {40, NCells}
    /\ Cardinality(NonSingletons(Unwrap(gen))) = free_cells
    /\ IsSome(result)

\* C4: a call of generate_solvable with free_cells > 81 returns None: it
\* builds no grid, draws nothing from the random source and does not panic.
C4_OverRequest ==
    (free_cells > NCells) =>
        /\ pc \in {"gen", "gen_none"}
        /\ gen = None
        /\ sudoku = None
        /\ cells_to_choose = << >>
        /\ ~aborted

\* C4 witness: generate_solvable has returned None for 82 free cells
C4_Witness ==
    /\ pc = "gen_none"
    /\ free_cells = NCells + 1
    /\ gen = None

---------------------------------------------------------------------------
(* Properties of the text form *)

\* C7: for a solved grid, to_line gives a line of 81 characters and
\* from_line of that line gives back the grid, cell for cell.
C7_RoundTrip ==
    (IsSome(sudoku) /\ SolvedGrid(Unwrap(sudoku))) =>
        /\ (pc \in {"line", "parsed"}) => Len(line) = NCells
        /\ (pc = "parsed") =>
              /\ IsSome(parsed)
              /\ \A r, c \in Idx : Unwrap(parsed)[r][c] = Unwrap(sudoku)[r][c]

\* C7 witness: a solved grid other than the one of the tests has gone
\* through to_line and from_line.
C7_Witness ==
    /\ pc = "parsed"
    /\ phase = "line"
    /\ SolvedGrid(Unwrap(sudoku))
    /\ Unwrap(sudoku) # GridOfRows(TestPuzzles[10])
    /\ parsed = sudoku

---------------------------------------------------------------------------
(* Exact enumeration *)

\* The positions that share a row, a column or a box with position p
Peers ==
    [p \in 0 .. (NCells - 1) |->
        {q \in 0 .. (NCells - 1) :
            /\ q # p
            /\ \/ q \div Side = p \div Side
               \/ q % Side = p % Side
               \/ /\ (q \div Side) \div BoxSide = (p \div Side) \div BoxSide
                  /\ (q % Side) \div BoxSide = (p % Side) \div BoxSide}]

\* The grids of S with the cell at p fixed to each of its candidates that no
\* cell sharing a unit with p is fixed to
FillStep(S, p) ==
    {[x[1] EXCEPT ![p \div Side][p % Side] = {x[2]}] :
        x \in {y \in S \X (1 .. 9) :
                 /\ y[2] \in y[1][p \div Side][p % Side]
                 /\ \A q \in Peers[p] : y[1][q \div Side][q % Side] # {y[2]}}}

\* The valid completions of t: the solved grids whose digit at each position
\* is a candidate of t's cell there, found by fixing one by one the cells of t
\* that are not a single digit
Completions(t) ==
    {s \in FoldRange(LAMBDA S, p : IF Cardinality(t[p \div Side][p % Side]) = 1 THEN S
                                   ELSE FillStep(S, p),
                     {t}, 0, NCells - 1) : SolvedGrid(s)}

\* The grids the search still holds: the stack, and the grid next() is
\* working on
PendingGrids ==
    IF pc \in {"simplify", "settled"} THEN Append(stack, solution) ELSE stack

\* C11: at every point of the enumeration the valid completions of the grid
\* given are the grids returned so far together with the valid completions of
\* the grids pending, each of them once: no grid is returned twice, no
\* completion is returned and still pending, none is a completion of two
\* pending grids, and none is lost by a round of propagation or by a split.
\* When next() returns None the grids returned are the valid completions.
C11_ExactEnumeration ==
    (IsSome(parsed) /\ pc # "aborted") =>
        \A all \in {Completions(g)} :
        \A parts \in {[i \in 1 .. Len(PendingGrids) |-> Completions(PendingGrids[i])]} :
        \A got \in {{yielded[k] : k \in 1 .. Len(yielded)}} :
            /\ Cardinality(got) = Len(yielded)
            /\ got \cup UNION {parts[i] : i \in 1 .. Len(parts)} = all
            /\ \A i \in 1 .. Len(parts) : parts[i] \cap got = {}
            /\ \A i, j \in 1 .. Len(parts) : i < j => parts[i] \cap parts[j] = {}
            /\ (pc = "idle" /\ calls >= 1 /\ result = None) =>
                  (stack = << >> /\ got = all)

\* C11 witness: next() has returned None after eight grids, the eight valid
\* completions of the grid given.
C11_Witness ==
    /\ pc = "idle"
    /\ calls = MaxEnumCalls
    /\ result = None
    /\ Len(yielded) = 8
    /\ Cardinality(Completions(g)) = 8

---------------------------------------------------------------------------
(* Termination of next() *)

\* next() runs to its return and the caller calls again: every step that is
\* enabled is eventually taken (the code is sequential and has no waits).
FairSpec == Init /\ [][Next]_vars /\ WF_vars(Next)

\* The number of candidates of a grid, summed over its cells
Weight(s) ==
    LET RowWeight(r) == FoldRange(LAMBDA acc, c : acc + Cardinality(s[r][c]), 0, 0, Side - 1)
    IN  FoldRange(LAMBDA acc, r : acc + RowWeight(r), 0, 0, Side - 1)

\* C8: every call of next() returns; it returns None only with the stack
\* empty; and the steps of the sequence are finitely many because a round of
\* the inner loop that reports a change leaves the grid with fewer candidates
\* and both grids a branching step pushes have fewer candidates than the grid
\* they replace, so that the grids pending shrink in the multiset order.
C8_Finite ==
    /\ (pc = "pop") ~> (pc = "idle")
    /\ []((pc = "idle" /\ calls > 0 /\ result = None) => stack = << >>)
    /\ [][ /\ (pc = "simplify" /\ pc' = "simplify") => Weight(solution') < Weight(solution)
           /\ (pc = "simplify" /\ pc' = "settled") => solution' = solution
           /\ (pc = "settled" /\ pc' = "pop") =>
                 /\ Weight(stack'[Len(stack')]) < Weight(solution)
                 /\ Weight(stack'[Len(stack') - 1]) < Weight(solution)
       ]_vars

\* C8 witness: next() has returned None, the stack is empty, after two or
\* more solutions were returned.
C8_Witness ==
    /\ pc = "idle"
    /\ result = None
    /\ stack = << >>
    /\ Len(yielded) >= 2

===========================================================================
